---------------------------- MODULE Spec2Model ----------------------------
(***************************************************************************)
(* A model of the LIM front end: the recursive-descent parser of           *)
(* src/src/parser.ts (class Parser) and the command-line driver that runs  *)
(* the lexer, the parser and the interpreter in sequence.                  *)
(*                                                                         *)
(* The parser is a stack machine: one frame per active call of a grammar   *)
(* method, one action per method, one step from a call or return to the    *)
(* next.  The token helpers (check, match, consume, advance, ...) call no  *)
(* grammar method, so they are operators from a cursor to a result: a      *)
(* value and the new cursor, a ParseError raised at a cursor, or the fatal *)
(* Error of current() and previous().                                      *)
(***************************************************************************)
EXTENDS Naturals, Sequences, FiniteSets

VARIABLES
  input,     \* what the driver is started on: [hasArg, file, exists, kinds],
             \* file being args[0], exists the answer of srcFile.exists() and
             \* kinds the text of the file
  dpc,       \* the driver's position: "start", "exists" and "reading" (awaiting
             \* srcFile.exists() and srcFile.text()), "lexed", "parsing", and
             \* where it ends: "ran", "exited", "unhandled rejection",
             \* "uncaught ParseError", "uncaught Error"
  tokens,    \* Parser.tokens
  i,         \* Parser.i, the cursor (an index from 0, as in the source)
  errors,    \* Parser.errors
  stack,     \* the parser's call stack, innermost call last
  ret,       \* the value the last call returned
  exc,       \* the ParseError a declaration has caught, as a one-element sequence
  slimAst,   \* the driver's slimAst
  runCalls,  \* the arguments of every Runtime.run call so far
  exitCode,  \* the status the process has ended with, as a one-element sequence:
             \* the one handed to process.exit, or the 1 the runtime ends the
             \* process with on an uncaught error
  stderr,    \* what was written to stderr: the driver's console.error lines and
             \* the runtime's report of an uncaught error
  nulls,     \* history: the number of declaration calls that returned null
  lastSync,  \* history: [from, to] of the last completed synchronize call
  lastStmt   \* history: the last exprOrAssignStmt call: where it started, the
             \* branch it took, where it parsed its expression, its node

vars == <<input, dpc, tokens, i, errors, stack, ret, exc, slimAst, runCalls,
          exitCode, stderr, nulls, lastSync, lastStmt>>

(***************************************************************************)
(* Token kinds (the members of TK the parser names).                       *)
(***************************************************************************)
AssignKinds == {"ASSIGN", "PLUS_ASSIGN", "MINUS_ASSIGN", "STAR_ASSIGN", "SLASH_ASSIGN"}

TokenKinds ==
  {"FUNC", "LET", "IF", "WHILE", "ELSE", "LBRACE", "RBRACE", "LPAREN", "RPAREN",
   "COMMA", "SEMICOLON", "IDENT", "NUMBER", "STRING", "OR", "AND", "EQUAL",
   "NOTEQ", "LT", "LTE", "GT", "GTE", "PLUS", "MINUS", "STAR", "SLASH", "NOT",
   "BANG", "EOF"} \cup AssignKinds

(***************************************************************************)
(* Results of the parser's methods.                                        *)
(***************************************************************************)
Ok(ci, v) == [st |-> "ok", i |-> ci, val |-> v]

Fatal(ci, message) == [st |-> "fatal", i |-> ci, msg |-> message]

error(token, message) == [token |-> token, message |-> message]

Throw(ci, e) == [st |-> "err", i |-> ci, e |-> e]

(***************************************************************************)
(* AST nodes.                                                              *)
(***************************************************************************)
Null == [kind |-> "null"]

Undefined == [kind |-> "undefined"]

Truthy(v) == v.kind \notin {"null", "undefined"}

\* a Stmt[] as a value a method returns
List(items) == [kind |-> "list", items |-> items]

(***************************************************************************)
(* Helpers.                                                                *)
(***************************************************************************)
\* the rest K of a method runs on the value of a call that returned; a call
\* that threw ends the method with what it threw (x ranges over the one
\* result of the call, so that the call is evaluated once)
Bind(r, K(_)) == CHOOSE y \in {IF x.st # "ok" THEN x ELSE K(x) : x \in {r}} : TRUE

current(ci) ==
  IF ci >= 0 /\ ci < Len(tokens)
    THEN Ok(ci, tokens[ci + 1])
    ELSE Fatal(ci, "Parser invariant violated: missing EOF token")

previous(ci) ==
  IF ci >= 1 /\ ci - 1 < Len(tokens)
    THEN Ok(ci, tokens[ci])
    ELSE Fatal(ci, "Parser invariant violated: previous() before start")

\* tokens[this.i + 1], or undefined: a sequence of at most one token
peek(ci) == IF ci + 1 < Len(tokens) THEN <<tokens[ci + 2]>> ELSE <<>>

isAtEnd(ci) == Bind(current(ci), LAMBDA c : Ok(ci, c.val.kind = "EOF"))

\* check without its test for the end of the input
check_NoEofGuard(ci, kind) ==
  Bind(current(ci), LAMBDA c : Ok(ci, c.val.kind = kind))

check(ci, kind) ==
  Bind(isAtEnd(ci), LAMBDA e :
    IF e.val THEN Ok(ci, FALSE)
    ELSE Bind(current(ci), LAMBDA c : Ok(ci, c.val.kind = kind)))

\* advance without its test for the end of the input
advance_NoEofGuard(ci) == previous(ci + 1)

advance(ci) ==
  Bind(isAtEnd(ci), LAMBDA e : previous(IF ~e.val THEN ci + 1 ELSE ci))

RECURSIVE match(_, _)
match(ci, kinds) ==
  IF kinds = <<>> THEN Ok(ci, FALSE)
  ELSE Bind(check(ci, Head(kinds)), LAMBDA c :
         IF c.val THEN Bind(advance(ci), LAMBDA a : Ok(a.i, TRUE))
         ELSE match(ci, Tail(kinds)))

consume(ci, kind, message) ==
  Bind(check(ci, kind), LAMBDA c :
    IF c.val THEN advance(ci)
    ELSE Bind(current(ci), LAMBDA t : Throw(ci, error(t.val, message))))

\* Number(t.literal ?? t.lexeme) and String(t.literal ?? t.lexeme): the
\* decoded literal when the token carries one, the lexeme otherwise
LiteralOrLexeme(t) == IF t.literal # <<>> THEN t.literal[1] ELSE t.lexeme

(***************************************************************************)
(* The call stack.                                                         *)
(***************************************************************************)
Frame(fn, pc, v) == [fn |-> fn, pc |-> pc, v |-> v]

NoLocals == [none |-> TRUE]

Enter(fn) == Frame(fn, "start", NoLocals)

Top == stack[Len(stack)]

At(fn, pc) == stack # <<>> /\ Top.fn = fn /\ Top.pc = pc

Rest == SubSeq(stack, 1, Len(stack) - 1)

\* the innermost active declaration call whose try block is running (0: none)
Catcher ==
  LET ks == {k \in 1..Len(stack) : stack[k].fn = "declaration" /\ stack[k].pc = "try"}
  IN  IF ks = {} THEN 0 ELSE CHOOSE k \in ks : \A j \in ks : j <= k

\* the top call moves to pc with locals v, the cursor to ci
Goto(ci, pc, v) ==
  /\ i' = ci
  /\ stack' = Append(Rest, Frame(Top.fn, pc, v))
  /\ UNCHANGED <<ret, exc, dpc, exitCode, stderr>>

\* the top call calls callee, to resume at pc with locals v
Invoke(ci, pc, v, callee) ==
  /\ i' = ci
  /\ stack' = Append(Append(Rest, Frame(Top.fn, pc, v)), callee)
  /\ UNCHANGED <<ret, exc, dpc, exitCode, stderr>>

\* the top call returns val
Return(ci, val) ==
  /\ i' = ci
  /\ stack' = Rest
  /\ ret' = val
  /\ UNCHANGED <<exc, dpc, exitCode, stderr>>

\* the top call throws: a ParseError reaches the catch of the innermost
\* declaration whose try block is running; any other Error is rethrown by
\* every catch and leaves parseProgram, like a ParseError nothing catches:
\* the runtime reports the uncaught error on stderr and ends the process
\* with status 1
Raise(r) ==
  /\ i' = r.i
  /\ ret' = ret
  /\ IF r.st = "err" /\ Catcher # 0
       THEN /\ stack' = Append(SubSeq(stack, 1, Catcher - 1),
                               Frame("declaration", "catch", NoLocals))
            /\ exc' = <<r.e>>
            /\ UNCHANGED <<dpc, exitCode, stderr>>
       ELSE /\ stack' = <<>>
            /\ exc' = IF r.st = "err" THEN <<r.e>> ELSE exc
            /\ dpc' = IF r.st = "err" THEN "uncaught ParseError" ELSE "uncaught Error"
            /\ stderr' = Append(stderr,
                                [uncaught |-> IF r.st = "err" THEN r.e.message ELSE r.msg])
            /\ exitCode' = <<1>>

\* return this.consume(kind, message) and then node
ConsumeAndReturn(kind, message, node) ==
  LET c == consume(i, kind, message)
  IN  IF c.st # "ok" THEN Raise(c) ELSE Return(c.i, node)

\* what a method that touches neither the errors nor the history leaves alone
Quiet ==
  UNCHANGED <<input, tokens, errors, slimAst, runCalls, nulls, lastSync, lastStmt>>

(***************************************************************************)
(* Program, Decls / Statements.                                            *)
(***************************************************************************)
\* parseProgram without the test of the statement it pushes
ParseProgram_PushAll ==
  /\ stack # <<>> /\ Top.fn = "parseProgram"
  /\ Quiet
  /\ IF Top.pc = "loop"
       THEN LET e == isAtEnd(i)
            IN  IF e.st # "ok" THEN Raise(e)
                ELSE IF e.val THEN Return(i, List(Top.v.out))
                ELSE Invoke(i, "after", [out |-> Top.v.out, it |-> i], Enter("declaration"))
       ELSE Goto(i, "loop", [out |-> Append(Top.v.out, ret), it |-> Top.v.it])

ParseProgram ==
  /\ stack # <<>> /\ Top.fn = "parseProgram"
  /\ Quiet
  /\ IF Top.pc = "loop"
       THEN LET e == isAtEnd(i)
            IN  IF e.st # "ok" THEN Raise(e)
                ELSE IF e.val THEN Return(i, List(Top.v.out))
                ELSE Invoke(i, "after", [out |-> Top.v.out, it |-> i], Enter("declaration"))
       ELSE \* "after": const stmt = <the value returned>; if (stmt) out.push(stmt)
            Goto(i, "loop",
                 [out |-> IF Truthy(ret) THEN Append(Top.v.out, ret) ELSE Top.v.out,
                  it |-> Top.v.it])

Declaration ==
  /\ stack # <<>> /\ Top.fn = "declaration"
  /\ UNCHANGED <<input, tokens, slimAst, runCalls, lastSync, lastStmt>>
  /\ CASE Top.pc = "start" ->
            /\ UNCHANGED <<errors, nulls>>
            /\ LET f == match(i, <<"FUNC">>)
                   l == match(i, <<"LET">>)
               IN  IF f.st # "ok" THEN Raise(f)
                   ELSE IF f.val THEN Invoke(f.i, "try", NoLocals, Enter("fnDecl"))
                   ELSE IF l.st # "ok" THEN Raise(l)
                   ELSE IF l.val THEN Invoke(l.i, "try", NoLocals, Enter("letDecl"))
                   ELSE Invoke(i, "try", NoLocals, Enter("statement"))
       [] Top.pc = "try" ->     \* return the value of fnDecl, letDecl or statement
            /\ UNCHANGED <<errors, nulls>>
            /\ Return(i, ret)
       [] Top.pc = "catch" ->   \* this.errors.push(e); this.synchronize()
            /\ errors' = Append(errors, exc[1])
            /\ nulls' = nulls
            /\ Invoke(i, "synced", NoLocals, Frame("synchronize", "start", [from |-> i]))
       [] Top.pc = "synced" ->  \* return null
            /\ errors' = errors
            /\ nulls' = nulls + 1
            /\ Return(i, Null)

Statement ==
  /\ stack # <<>> /\ Top.fn = "statement"
  /\ Quiet
  /\ IF Top.pc = "start"
       THEN LET f == match(i, <<"IF">>)
                w == match(i, <<"WHILE">>)
                b == match(i, <<"LBRACE">>)
            IN  IF f.st # "ok" THEN Raise(f)
                ELSE IF f.val THEN Invoke(f.i, "ret", NoLocals, Enter("ifStmt"))
                ELSE IF w.st # "ok" THEN Raise(w)
                ELSE IF w.val THEN Invoke(w.i, "ret", NoLocals, Enter("whileStmt"))
                ELSE IF b.st # "ok" THEN Raise(b)
                ELSE IF b.val
                  THEN Invoke(b.i, "ret", NoLocals, Enter("blockStmtAlreadyOpened"))
                ELSE Invoke(i, "ret", NoLocals, Enter("exprOrAssignStmt"))
       ELSE Return(i, ret)

\* letDecl up to this.expression() or, with no initializer, to its end
letDeclHead(ci) ==
  Bind(consume(ci, "IDENT", "Expected identifier after 'let'."), LAMBDA nameTok :
    Bind(match(nameTok.i, <<"ASSIGN">>), LAMBDA m :
      Ok(m.i, [name |-> nameTok.val.lexeme, hasInit |-> m.val])))

LetDecl ==
  /\ stack # <<>> /\ Top.fn = "letDecl"
  /\ Quiet
  /\ IF Top.pc = "start"
       THEN LET h == letDeclHead(i)
            IN  IF h.st # "ok" THEN Raise(h)
                ELSE IF h.val.hasInit
                  THEN Invoke(h.i, "init", [name |-> h.val.name], Enter("expression"))
                ELSE LET c == consume(h.i, "SEMICOLON", "Expected ';' after let declaration.")
                     IN  IF c.st # "ok" THEN Raise(c)
                         ELSE Return(c.i, [kind |-> "Let", name |-> h.val.name, init |-> Null])
       ELSE ConsumeAndReturn("SEMICOLON", "Expected ';' after let declaration.",
                             [kind |-> "Let", name |-> Top.v.name, init |-> ret])

\* do { params.push(this.consume(TK.IDENT, ...).lexeme) } while (this.match(TK.COMMA))
RECURSIVE paramsLoop(_, _)
paramsLoop(ci, params) ==
  Bind(consume(ci, "IDENT", "Expected parameter name."), LAMBDA p :
    Bind(match(p.i, <<"COMMA">>), LAMBDA m :
      IF m.val THEN paramsLoop(m.i, Append(params, p.val.lexeme))
      ELSE Ok(m.i, Append(params, p.val.lexeme))))

\* fnDecl up to its call of blockStmtsAlreadyOpened: the name and the parameters
fnDeclHead(ci) ==
  Bind(consume(ci, "IDENT", "Expected function name after 'func'."), LAMBDA nameTok :
    Bind(consume(nameTok.i, "LPAREN", "Expected '(' after function name."), LAMBDA l :
      Bind(check(l.i, "RPAREN"), LAMBDA k :
        Bind(IF ~k.val THEN paramsLoop(l.i, <<>>) ELSE Ok(l.i, <<>>), LAMBDA params :
          Bind(consume(params.i, "RPAREN", "Expected ')' after parameters."), LAMBDA r :
            Bind(consume(r.i, "LBRACE", "Expected '{' before function body."), LAMBDA b :
              Ok(b.i, [name |-> nameTok.val.lexeme, params |-> params.val])))))))

FnDecl ==
  /\ stack # <<>> /\ Top.fn = "fnDecl"
  /\ Quiet
  /\ IF Top.pc = "start"
       THEN LET h == fnDeclHead(i)
            IN  IF h.st # "ok" THEN Raise(h)
                ELSE Invoke(h.i, "body", h.val,
                            Frame("blockStmtsAlreadyOpened", "loop",
                                  [stmts |-> <<>>, it |-> h.i]))
       ELSE Return(i, [kind |-> "Fn", name |-> Top.v.name, params |-> Top.v.params,
                       body |-> ret.items])

IfStmt ==
  /\ stack # <<>> /\ Top.fn = "ifStmt"
  /\ Quiet
  /\ CASE Top.pc = "start" ->
            LET l == consume(i, "LPAREN", "Expected '(' after 'if'.")
            IN  IF l.st # "ok" THEN Raise(l)
                ELSE Invoke(l.i, "cond", NoLocals, Enter("expression"))
       [] Top.pc = "cond" ->
            LET r == consume(i, "RPAREN", "Expected ')' after condition.")
            IN  IF r.st # "ok" THEN Raise(r)
                ELSE Invoke(r.i, "then", [cond |-> ret], Enter("statement"))
       [] Top.pc = "then" ->
            LET m == match(i, <<"ELSE">>)
            IN  IF m.st # "ok" THEN Raise(m)
                ELSE IF m.val
                  THEN Invoke(m.i, "else", [cond |-> Top.v.cond, then |-> ret],
                              Enter("statement"))
                ELSE Return(i, [kind |-> "If", cond |-> Top.v.cond, then |-> ret,
                                otherwise |-> Undefined])
       [] Top.pc = "else" ->
            Return(i, [kind |-> "If", cond |-> Top.v.cond, then |-> Top.v.then,
                       otherwise |-> ret])

WhileStmt ==
  /\ stack # <<>> /\ Top.fn = "whileStmt"
  /\ Quiet
  /\ CASE Top.pc = "start" ->
            LET l == consume(i, "LPAREN", "Expected '(' after 'while'.")
            IN  IF l.st # "ok" THEN Raise(l)
                ELSE Invoke(l.i, "cond", NoLocals, Enter("expression"))
       [] Top.pc = "cond" ->
            LET r == consume(i, "RPAREN", "Expected ')' after condition.")
            IN  IF r.st # "ok" THEN Raise(r)
                ELSE Invoke(r.i, "body", [cond |-> ret], Enter("statement"))
       [] Top.pc = "body" ->
            Return(i, [kind |-> "While", cond |-> Top.v.cond, body |-> ret])

BlockStmtAlreadyOpened ==
  /\ stack # <<>> /\ Top.fn = "blockStmtAlreadyOpened"
  /\ Quiet
  /\ IF Top.pc = "start"
       THEN Invoke(i, "ret", NoLocals,
                   Frame("blockStmtsAlreadyOpened", "loop", [stmts |-> <<>>, it |-> i]))
       ELSE Return(i, [kind |-> "Block", stmts |-> ret.items])

\* a block loop written as the grammar block := statement* "}" reads
BlockElement_Statement == "statement"

\* the method the block loop parses each of its elements with
BlockElement == "declaration"

BlockStmtsAlreadyOpened ==
  /\ stack # <<>> /\ Top.fn = "blockStmtsAlreadyOpened"
  /\ Quiet
  /\ IF Top.pc = "loop"
       THEN LET k == check(i, "RBRACE")
                e == isAtEnd(i)
            IN  IF k.st # "ok" THEN Raise(k)
                ELSE IF ~k.val /\ e.st # "ok" THEN Raise(e)
                ELSE IF ~k.val /\ ~e.val
                  THEN Invoke(i, "after", [stmts |-> Top.v.stmts, it |-> i],
                              Enter(BlockElement))
                ELSE ConsumeAndReturn("RBRACE", "Expected '}' after block.",
                                      List(Top.v.stmts))
       ELSE \* "after": const s = <the value returned>; if (s) stmts.push(s)
            Goto(i, "loop",
                 [stmts |-> IF Truthy(ret) THEN Append(Top.v.stmts, ret) ELSE Top.v.stmts,
                  it |-> Top.v.it])

\* peekIsAssignOp without its last case
peekIsAssignOp_NoSlashAssign(ci) ==
  LET next == peek(ci)
  IN  IF next = <<>> THEN FALSE
      ELSE \/ next[1].kind = "ASSIGN"
           \/ next[1].kind = "PLUS_ASSIGN"
           \/ next[1].kind = "MINUS_ASSIGN"
           \/ next[1].kind = "STAR_ASSIGN"

\* tokens[this.i + 1] is one of the five assignment operators
peekIsAssignOp(ci) ==
  LET next == peek(ci)
  IN  IF next = <<>> THEN FALSE
      ELSE \/ next[1].kind = "ASSIGN"
           \/ next[1].kind = "PLUS_ASSIGN"
           \/ next[1].kind = "MINUS_ASSIGN"
           \/ next[1].kind = "STAR_ASSIGN"
           \/ next[1].kind = "SLASH_ASSIGN"

assignOpFromToken(ci, tok) ==
  IF tok.kind \in AssignKinds THEN Ok(ci, tok.kind)
  ELSE Throw(ci, error(tok, "Expected assignment operator, got '" \o tok.kind \o "'."))

\* the lookahead of exprOrAssignStmt: check(IDENT) && peekIsAssignOp()
lookahead(ci) == Bind(check(ci, "IDENT"), LAMBDA k : Ok(ci, k.val /\ peekIsAssignOp(ci)))

\* the assignment branch of exprOrAssignStmt up to this.expression()
assignHead(ci) ==
  Bind(advance(ci), LAMBDA name :
    Bind(advance(name.i), LAMBDA opTok :
      Bind(assignOpFromToken(opTok.i, opTok.val), LAMBDA op :
        Ok(op.i, [name |-> name.val.lexeme, op |-> op.val]))))

ExprOrAssignStmt ==
  /\ stack # <<>> /\ Top.fn = "exprOrAssignStmt"
  /\ UNCHANGED <<input, tokens, errors, slimAst, runCalls, nulls, lastSync>>
  /\ CASE Top.pc = "start" ->
            LET la == lookahead(i)
                h == assignHead(i)
                started(assign, exprAt) ==
                  <<[at |-> i, assign |-> assign, exprAt |-> exprAt, node |-> Null]>>
            IN  IF la.st # "ok" THEN lastStmt' = lastStmt /\ Raise(la)
                ELSE IF la.val /\ h.st # "ok" THEN lastStmt' = lastStmt /\ Raise(h)
                ELSE IF la.val
                  THEN /\ lastStmt' = started(TRUE, h.i)
                       /\ Invoke(h.i, "value", h.val, Enter("expression"))
                ELSE /\ lastStmt' = started(FALSE, i)
                     /\ Invoke(i, "expr", NoLocals, Enter("expression"))
       [] Top.pc = "value" ->
            LET c == consume(i, "SEMICOLON", "Expected ';' after assignment.")
                node == [kind |-> "Assign", name |-> Top.v.name, op |-> Top.v.op,
                         value |-> ret]
            IN  IF c.st # "ok" THEN lastStmt' = lastStmt /\ Raise(c)
                ELSE /\ lastStmt' = <<[lastStmt[1] EXCEPT !.node = node]>>
                     /\ Return(c.i, node)
       [] Top.pc = "expr" ->
            LET c == consume(i, "SEMICOLON", "Expected ';' after expression.")
                node == [kind |-> "ExprStmt", expr |-> ret]
            IN  IF c.st # "ok" THEN lastStmt' = lastStmt /\ Raise(c)
                ELSE /\ lastStmt' = <<[lastStmt[1] EXCEPT !.node = node]>>
                     /\ Return(c.i, node)

(***************************************************************************)
(* Expressions (ladder).                                                   *)
(***************************************************************************)
Expression ==
  /\ stack # <<>> /\ Top.fn = "expression"
  /\ Quiet
  /\ IF Top.pc = "start" THEN Invoke(i, "ret", NoLocals, Enter("logicOr"))
     ELSE Return(i, ret)

\* the operator a binary method gives its node, from the token it matched
binaryOp(fn, opTok) ==
  CASE fn = "logicOr" -> "OR"
    [] fn = "logicAnd" -> "AND"
    [] fn = "equality" -> IF opTok.kind = "EQUAL" THEN "EQUAL" ELSE "NOTEQ"
    [] fn = "comparison" -> IF opTok.kind = "LT" THEN "LT"
                            ELSE IF opTok.kind = "LTE" THEN "LTE"
                            ELSE IF opTok.kind = "GT" THEN "GT"
                            ELSE "GTE"
    [] fn = "term" -> IF opTok.kind = "PLUS" THEN "PLUS" ELSE "MINUS"
    [] fn = "factor" -> IF opTok.kind = "STAR" THEN "STAR" ELSE "SLASH"

\* the six binary methods have one shape:
\*   let expr = this.next(); while (this.match(kinds)) { opTok; rhs = this.next(); fold }
\* pc "lhs": next has returned the first operand; pc "rhs": it has returned
\* the right operand of Top.v.opTok, which folds onto Top.v.expr.  operand is
\* the method the right operand is parsed with (next, in the source)
BinaryLevel(fn, next, operand, kinds) ==
  /\ Quiet
  /\ IF Top.pc = "start" THEN Invoke(i, "lhs", NoLocals, Enter(next))
     ELSE LET expr == IF Top.pc = "lhs" THEN ret
                      ELSE [kind |-> "Binary", op |-> binaryOp(fn, Top.v.opTok),
                            lhs |-> Top.v.expr, rhs |-> ret]
              m == match(i, kinds)
              \* logicOr and logicAnd do not read the operator token
              opTok == IF fn \in {"logicOr", "logicAnd"} THEN Ok(m.i, Null)
                       ELSE previous(m.i)
          IN  IF m.st # "ok" THEN Raise(m)
              ELSE IF ~m.val THEN Return(i, expr)
              ELSE IF opTok.st # "ok" THEN Raise(opTok)
              ELSE Invoke(m.i, "rhs", [expr |-> expr, opTok |-> opTok.val], Enter(operand))

LogicOr ==
  /\ stack # <<>> /\ Top.fn = "logicOr"
  /\ BinaryLevel("logicOr", "logicAnd", "logicAnd", <<"OR">>)

LogicAnd ==
  /\ stack # <<>> /\ Top.fn = "logicAnd"
  /\ BinaryLevel("logicAnd", "equality", "equality", <<"AND">>)

Equality ==
  /\ stack # <<>> /\ Top.fn = "equality"
  /\ BinaryLevel("equality", "comparison", "comparison", <<"EQUAL", "NOTEQ">>)

Comparison ==
  /\ stack # <<>> /\ Top.fn = "comparison"
  /\ BinaryLevel("comparison", "term", "term", <<"LT", "LTE", "GT", "GTE">>)

\* term with its right operand parsed by term itself: a right-recursive rule
Term_RightRecursive ==
  /\ stack # <<>> /\ Top.fn = "term"
  /\ BinaryLevel("term", "factor", "term", <<"PLUS", "MINUS">>)

Term ==
  /\ stack # <<>> /\ Top.fn = "term"
  /\ BinaryLevel("term", "factor", "factor", <<"PLUS", "MINUS">>)

Factor ==
  /\ stack # <<>> /\ Top.fn = "factor"
  /\ BinaryLevel("factor", "unary", "unary", <<"STAR", "SLASH">>)

Unary ==
  /\ stack # <<>> /\ Top.fn = "unary"
  /\ Quiet
  /\ CASE Top.pc = "start" ->
            LET m == match(i, <<"NOT", "MINUS", "BANG">>)
                opTok == previous(m.i)
            IN  IF m.st # "ok" THEN Raise(m)
                ELSE IF ~m.val THEN Invoke(i, "ret", NoLocals, Enter("call"))
                ELSE IF opTok.st # "ok" THEN Raise(opTok)
                ELSE Invoke(m.i, "rhs", [opTok |-> opTok.val], Enter("unary"))
       [] Top.pc = "rhs" ->
            Return(i, [kind |-> "Unary",
                       op |-> IF Top.v.opTok.kind = "MINUS" THEN "MINUS" ELSE "NOT",
                       rhs |-> ret])
       [] Top.pc = "ret" -> Return(i, ret)

\* call: pc "loop" is the head of while (true), with the callee so far in
\* Top.v.expr; pc "arg": this.expression() has returned an argument
Call ==
  /\ stack # <<>> /\ Top.fn = "call"
  /\ Quiet
  /\ CASE Top.pc = "start" -> Invoke(i, "callee", NoLocals, Enter("primary"))
       [] Top.pc = "callee" -> Goto(i, "loop", [expr |-> ret])
       [] Top.pc = "loop" ->
            LET m == match(i, <<"LPAREN">>)
                k == check(m.i, "RPAREN")
                c == consume(m.i, "RPAREN", "Expected ')' after arguments.")
            IN  IF m.st # "ok" THEN Raise(m)
                ELSE IF ~m.val THEN Return(i, Top.v.expr)
                ELSE IF k.st # "ok" THEN Raise(k)
                ELSE IF ~k.val
                  THEN Invoke(m.i, "arg", [expr |-> Top.v.expr, args |-> <<>>],
                              Enter("expression"))
                ELSE IF c.st # "ok" THEN Raise(c)
                ELSE Goto(c.i, "loop", [expr |-> [kind |-> "Call", callee |-> Top.v.expr,
                                                  args |-> <<>>]])
       [] Top.pc = "arg" ->
            LET args == Append(Top.v.args, ret)
                m == match(i, <<"COMMA">>)
                c == consume(i, "RPAREN", "Expected ')' after arguments.")
            IN  IF m.st # "ok" THEN Raise(m)
                ELSE IF m.val
                  THEN Invoke(m.i, "arg", [expr |-> Top.v.expr, args |-> args],
                              Enter("expression"))
                ELSE IF c.st # "ok" THEN Raise(c)
                ELSE Goto(c.i, "loop", [expr |-> [kind |-> "Call", callee |-> Top.v.expr,
                                                  args |-> args]])

\* primary when it calls no other method: a literal, an identifier or the
\* ParseError; val is Null when "(" was matched and this.expression() is next
primaryHead(ci) ==
  Bind(match(ci, <<"NUMBER">>), LAMBDA n :
    IF n.val
      THEN Bind(previous(n.i), LAMBDA t :
             Ok(n.i, [kind |-> "Num", value |-> LiteralOrLexeme(t.val)]))
    ELSE
    Bind(match(ci, <<"STRING">>), LAMBDA s :
      IF s.val
        THEN Bind(previous(s.i), LAMBDA t :
               Ok(s.i, [kind |-> "Str", value |-> LiteralOrLexeme(t.val)]))
      ELSE
      Bind(match(ci, <<"IDENT">>), LAMBDA d :
        IF d.val
          THEN Bind(previous(d.i), LAMBDA t :
                 Ok(d.i, [kind |-> "Ident", name |-> t.val.lexeme]))
        ELSE
        Bind(match(ci, <<"LPAREN">>), LAMBDA p :
          IF p.val THEN Ok(p.i, Null)
          ELSE
          Bind(current(ci), LAMBDA t :
            Throw(ci, error(t.val, "Expected expression.")))))))

Primary ==
  /\ stack # <<>> /\ Top.fn = "primary"
  /\ Quiet
  /\ IF Top.pc = "start"
       THEN LET h == primaryHead(i)
            IN  IF h.st # "ok" THEN Raise(h)
                ELSE IF h.val.kind = "null"
                  THEN Invoke(h.i, "group", NoLocals, Enter("expression"))
                ELSE Return(h.i, h.val)
       ELSE ConsumeAndReturn("RPAREN", "Expected ')' after expression.",
                             [kind |-> "Group", expr |-> ret])

(***************************************************************************)
(* Error recovery.                                                         *)
(***************************************************************************)
\* the switch of synchronize without case TK.IF
syncBoundary_NoIf(kind) == kind \in {"LET", "FUNC", "WHILE"}

\* the switch of synchronize: the kinds of token at which it stops
syncBoundary(kind) == kind \in {"LET", "FUNC", "IF", "WHILE"}

\* synchronize without the advance() before its loop
Synchronize_NoFirstAdvance ==
  /\ stack # <<>> /\ Top.fn = "synchronize"
  /\ UNCHANGED <<input, tokens, errors, slimAst, runCalls, nulls, lastStmt>>
  /\ IF Top.pc = "start"
       THEN lastSync' = lastSync /\ Goto(i, "loop", Top.v)
       ELSE LET e == isAtEnd(i)
                p == previous(i)
                c == current(i)
                a == advance(i)
                done == [from |-> Top.v.from, to |-> i]
            IN  IF e.st # "ok" THEN lastSync' = lastSync /\ Raise(e)
                ELSE IF e.val THEN lastSync' = <<done>> /\ Return(i, Undefined)
                ELSE IF p.st # "ok" THEN lastSync' = lastSync /\ Raise(p)
                ELSE IF p.val.kind = "SEMICOLON"
                  THEN lastSync' = <<done>> /\ Return(i, Undefined)
                ELSE IF c.st # "ok" THEN lastSync' = lastSync /\ Raise(c)
                ELSE IF syncBoundary(c.val.kind)
                  THEN lastSync' = <<done>> /\ Return(i, Undefined)
                ELSE IF a.st # "ok" THEN lastSync' = lastSync /\ Raise(a)
                ELSE lastSync' = lastSync /\ Goto(a.i, "loop", Top.v)

Synchronize ==
  /\ stack # <<>> /\ Top.fn = "synchronize"
  /\ UNCHANGED <<input, tokens, errors, slimAst, runCalls, nulls, lastStmt>>
  /\ IF Top.pc = "start"
       THEN LET a == advance(i)
            IN  /\ lastSync' = lastSync
                /\ IF a.st # "ok" THEN Raise(a) ELSE Goto(a.i, "loop", Top.v)
       ELSE LET e == isAtEnd(i)
                p == previous(i)
                c == current(i)
                a == advance(i)
                done == [from |-> Top.v.from, to |-> i]
            IN  IF e.st # "ok" THEN lastSync' = lastSync /\ Raise(e)
                ELSE IF e.val THEN lastSync' = <<done>> /\ Return(i, Undefined)
                ELSE IF p.st # "ok" THEN lastSync' = lastSync /\ Raise(p)
                ELSE IF p.val.kind = "SEMICOLON"
                  THEN lastSync' = <<done>> /\ Return(i, Undefined)
                ELSE IF c.st # "ok" THEN lastSync' = lastSync /\ Raise(c)
                ELSE IF syncBoundary(c.val.kind)
                  THEN lastSync' = <<done>> /\ Return(i, Undefined)
                ELSE IF a.st # "ok" THEN lastSync' = lastSync /\ Raise(a)
                ELSE lastSync' = lastSync /\ Goto(a.i, "loop", Top.v)

(***************************************************************************)
(* The driver.                                                             *)
(***************************************************************************)
\* Lexer.lex: the tokens of a source text, given here by the kinds of its
\* tokens, in order, ending with exactly one EOF token.  A token's lexeme
\* is identified by its place in the text; NUMBER and STRING tokens carry
\* their decoded literal.
lex(src) ==
  [j \in 1..(Len(src) + 1) |->
     IF j = Len(src) + 1
       THEN [kind |-> "EOF", lexeme |-> j, literal |-> <<>>]
       ELSE [kind |-> src[j], lexeme |-> j,
             literal |-> IF src[j] \in {"NUMBER", "STRING"} THEN <<j>> ELSE <<>>]]

\* if (!args[0]) { report; exit } else { srcFile = Bun.file(args[0]); the
\* call of srcFile.exists(), whose answer the driver awaits }
DriverStart ==
  /\ dpc = "start"
  /\ UNCHANGED <<input, tokens, i, errors, stack, ret, exc, slimAst, runCalls, nulls,
                 lastSync, lastStmt>>
  /\ IF ~input.hasArg
       THEN /\ stderr' = Append(stderr, [text |-> "[slim ERROR] No files were given to SLIM."])
            /\ exitCode' = <<1>>
            /\ dpc' = "exited"
       ELSE /\ dpc' = "exists"
            /\ UNCHANGED <<stderr, exitCode>>

\* srcFile.exists() has answered: report and exit, or call srcFile.text(),
\* whose result the driver awaits
DriverExists ==
  /\ dpc = "exists"
  /\ UNCHANGED <<input, tokens, i, errors, stack, ret, exc, slimAst, runCalls, nulls,
                 lastSync, lastStmt>>
  /\ IF ~input.exists
       THEN /\ stderr' = Append(stderr,
                   [text |-> "[slim ERROR] File '" \o input.file \o "' does not exist."])
            /\ exitCode' = <<1>>
            /\ dpc' = "exited"
       ELSE /\ dpc' = "reading"
            /\ UNCHANGED <<stderr, exitCode>>

\* srcFile.text() has settled: new Lexer(src), slimLexer.lex().  Should the
\* read fail, the rejected top-level await is an uncaught error of the entry
\* module: the runtime reports it on stderr and ends the process with
\* status 1, before any Lexer, Parser or Runtime is constructed
DriverRead ==
  /\ dpc = "reading"
  /\ UNCHANGED <<input, i, errors, stack, ret, exc, slimAst, runCalls, nulls,
                 lastSync, lastStmt>>
  /\ \E rejected \in BOOLEAN :
       IF rejected
         THEN /\ stderr' = Append(stderr, [uncaught |-> "srcFile.text() rejected"])
              /\ exitCode' = <<1>>
              /\ dpc' = "unhandled rejection"
              /\ tokens' = tokens
         ELSE /\ tokens' = lex(input.kinds)
              /\ dpc' = "lexed"
              /\ UNCHANGED <<stderr, exitCode>>

\* new Parser(slimTokens) and the call of parseProgram
DriverParse ==
  /\ dpc = "lexed"
  /\ i' = 0
  /\ errors' = <<>>
  /\ stack' = <<Frame("parseProgram", "loop", [out |-> <<>>, it |-> 0])>>
  /\ dpc' = "parsing"
  /\ UNCHANGED <<input, tokens, ret, exc, slimAst, runCalls, exitCode, stderr, nulls,
                 lastSync, lastStmt>>

\* one line of the report of a parse error
Diagnostic(err) ==
  [text |-> "[Code Pattern Error]", message |-> err.message,
   kind |-> err.token.kind, lexeme |-> err.token.lexeme]

\* a driver that hands the program to the interpreter whatever the errors
DriverFinish_NoErrorCheck ==
  /\ dpc = "parsing"
  /\ stack = <<>>
  /\ slimAst' = ret.items
  /\ UNCHANGED <<input, tokens, i, errors, stack, ret, exc, nulls, lastSync, lastStmt>>
  /\ runCalls' = Append(runCalls, ret.items)
  /\ dpc' = "ran"
  /\ UNCHANGED <<stderr, exitCode>>

\* parseProgram has returned: report the errors and exit, or run the program
DriverFinish ==
  /\ dpc = "parsing"
  /\ stack = <<>>
  /\ slimAst' = ret.items
  /\ UNCHANGED <<input, tokens, i, errors, stack, ret, exc, nulls, lastSync, lastStmt>>
  /\ IF Len(errors) # 0
       THEN /\ stderr' = stderr \o [k \in 1..Len(errors) |-> Diagnostic(errors[k])]
            /\ exitCode' = <<1>>
            /\ dpc' = "exited"
            /\ runCalls' = runCalls
       ELSE /\ runCalls' = Append(runCalls, ret.items)
            /\ dpc' = "ran"
            /\ UNCHANGED <<stderr, exitCode>>

(***************************************************************************)
(* The inputs.                                                             *)
(***************************************************************************)
MaxLen == 3

MaxOps == 2

ShortKinds ==
  {"LET", "FUNC", "IF", "WHILE", "LBRACE", "RBRACE", "LPAREN", "RPAREN", "SEMICOLON", "IDENT",
   "ASSIGN"}

\* every text of at most MaxLen tokens of ShortKinds
ShortPrograms == UNION {[1..n -> ShortKinds] : n \in 0..MaxLen}

BinaryKinds ==
  {"OR", "AND", "EQUAL", "NOTEQ", "LT", "LTE", "GT", "GTE", "PLUS", "MINUS", "STAR",
   "SLASH"}

\* operand (op operand)* ";" with the operators ops
ExprProgram(ops) ==
  [j \in 1..(2 * Len(ops) + 2) |->
     IF j = 2 * Len(ops) + 2 THEN "SEMICOLON"
     ELSE IF j % 2 = 0 THEN ops[j \div 2]
     ELSE IF j % 4 = 1 THEN "IDENT" ELSE "NUMBER"]

\* every expression statement that chains at most MaxOps binary operators
ExprPrograms == {ExprProgram(ops) : ops \in UNION {[1..n -> BinaryKinds] : n \in 0..MaxOps}}

\* an identifier followed by each kind of token
LookaheadPrograms ==
  {<<"IDENT", k, "NUMBER", "SEMICOLON">> : k \in TokenKinds \ {"EOF"}}

\* well-formed statements and declarations
ValidSegments ==
  { <<"IDENT", "SEMICOLON">>,
    <<"IDENT", "PLUS_ASSIGN", "NUMBER", "SEMICOLON">>,
    <<"LET", "IDENT", "ASSIGN", "NUMBER", "SEMICOLON">>,
    <<"LBRACE", "LET", "IDENT", "SEMICOLON", "IDENT", "SEMICOLON", "RBRACE">>,
    <<"IF", "LPAREN", "IDENT", "RPAREN", "IDENT", "SEMICOLON", "ELSE", "LBRACE", "RBRACE">>,
    <<"WHILE", "LPAREN", "IDENT", "LT", "NUMBER", "RPAREN", "LBRACE",
      "IDENT", "ASSIGN", "IDENT", "PLUS", "NUMBER", "SEMICOLON", "RBRACE">>,
    <<"FUNC", "IDENT", "LPAREN", "IDENT", "COMMA", "IDENT", "RPAREN", "LBRACE",
      "IDENT", "LPAREN", "IDENT", "COMMA", "STRING", "RPAREN", "SEMICOLON", "RBRACE">>,
    <<"FUNC", "IDENT", "LPAREN", "RPAREN", "LBRACE", "LET", "IDENT", "SEMICOLON", "RBRACE">>,
    <<"NOT", "LPAREN", "MINUS", "IDENT", "RPAREN", "SEMICOLON">> }

\* declarations with one syntax fault each
FaultSegments ==
  { <<"LET", "SEMICOLON">>,                                        \* no name
    <<"LET", "IDENT", "ASSIGN", "SEMICOLON">>,                     \* no initializer
    <<"LET", "IDENT", "ASSIGN", "NUMBER">>,                        \* no ';'
    <<"IDENT", "ASSIGN", "LPAREN", "NUMBER", "SEMICOLON">>,        \* no ')'
    <<"IDENT", "LPAREN", "IDENT", "COMMA", "RPAREN", "SEMICOLON">>,\* no argument
    <<"IF", "IDENT", "RPAREN", "IDENT", "SEMICOLON">>,             \* no '('
    <<"LBRACE", "IDENT", "IDENT", "SEMICOLON", "RBRACE">>,         \* no operator
    <<"LBRACE", "IDENT", "SEMICOLON">>,                            \* no '}'
    <<"FUNC", "IDENT", "LPAREN", "LBRACE", "IDENT", "SEMICOLON", "RBRACE">> } \* no ')'

\* a faulty declaration, a well-formed statement, a second faulty declaration
TwoFaultPrograms ==
  {f \o g \o h : f \in FaultSegments, g \in ValidSegments, h \in FaultSegments}

Programs ==
  ShortPrograms \cup ExprPrograms \cup LookaheadPrograms \cup ValidSegments
    \cup FaultSegments \cup TwoFaultPrograms

Inputs ==
  {[hasArg |-> FALSE, file |-> "", exists |-> FALSE, kinds |-> <<>>],
   [hasArg |-> TRUE, file |-> "nope.lim", exists |-> FALSE, kinds |-> <<>>]}
    \cup {[hasArg |-> TRUE, file |-> "a.lim", exists |-> TRUE, kinds |-> k] : k \in Programs}

Init ==
  /\ input \in Inputs
  /\ dpc = "start"
  /\ tokens = <<>>
  /\ i = 0
  /\ errors = <<>>
  /\ stack = <<>>
  /\ ret = Undefined
  /\ exc = <<>>
  /\ slimAst = <<>>
  /\ runCalls = <<>>
  /\ exitCode = <<>>
  /\ stderr = <<>>
  /\ nulls = 0
  /\ lastSync = <<>>
  /\ lastStmt = <<>>

Next ==
  \/ DriverStart
  \/ DriverExists
  \/ DriverRead
  \/ DriverParse
  \/ ParseProgram
  \/ Declaration
  \/ Statement
  \/ LetDecl
  \/ FnDecl
  \/ IfStmt
  \/ WhileStmt
  \/ BlockStmtAlreadyOpened
  \/ BlockStmtsAlreadyOpened
  \/ ExprOrAssignStmt
  \/ Expression
  \/ LogicOr
  \/ LogicAnd
  \/ Equality
  \/ Comparison
  \/ Term
  \/ Factor
  \/ Unary
  \/ Call
  \/ Primary
  \/ Synchronize
  \/ DriverFinish

Spec == Init /\ [][Next]_vars

\* the driver runs to completion: nothing suspends or cancels a step
FairSpec == Spec /\ WF_vars(Next)

(***************************************************************************)
(* Properties.                                                             *)
(***************************************************************************)
Finished == dpc \in {"ran", "exited"}

\* the driver has ended, in whatever way
Ended == dpc \notin {"start", "exists", "reading", "lexed", "parsing"}

Crashed == dpc \in {"uncaught ParseError", "uncaught Error"}

\* the parser has been constructed
Parsing == dpc \notin {"start", "lexed"} /\ tokens # <<>>

EofIndex == Len(tokens) - 1

KindAt(j) == tokens[j + 1].kind

AtEof == Parsing /\ i >= 0 /\ i < Len(tokens) /\ KindAt(i) = "EOF"

\* C1: a faulty declaration, a well-formed statement and a second faulty
\* declaration leave exactly two entries in Parser.errors.
C1_BatchErrorLaw ==
  (Finished /\ input.kinds \in TwoFaultPrograms) => Len(errors) = 2

\* Runtime.run is called at most once, only when Lexer.lex and parseProgram
\* have returned with no error recorded, and then with the statement list
\* parseProgram returned; with errors recorded the driver reports each and
\* exits with status 1
RunAfterCleanParse ==
  /\ Len(runCalls) <= 1
  /\ runCalls # <<>> =>
       /\ dpc = "ran" /\ input.hasArg /\ input.exists
       /\ tokens = lex(input.kinds) /\ stack = <<>>
       /\ errors = <<>> /\ runCalls = <<ret.items>> /\ slimAst = ret.items
       /\ exitCode = <<>>
  /\ (Finished /\ Parsing /\ errors # <<>>) =>
       dpc = "exited" /\ Len(stderr) = Len(errors) /\ exitCode = <<1>>
  /\ (Finished /\ Parsing /\ errors = <<>>) => dpc = "ran" /\ runCalls = <<ret.items>>
  /\ (~input.hasArg \/ ~input.exists) => ~Parsing /\ dpc \in {"start", "exists", "exited"}

\* a run that ends without a call of Runtime.run has reported why on stderr
\* and ended with status 1
ExitReported ==
  (Ended /\ runCalls = <<>>) => (exitCode = <<1>> /\ stderr # <<>>)

\* C2: in every run of the driver Runtime.run is called at most once, only
\* after Lexer.lex and parseProgram have returned and no error is recorded,
\* and then once with the full statement list parseProgram returned; with
\* errors recorded, with no file argument or with the input file missing,
\* the diagnostics are reported and the run ends with status 1 without a
\* call of Runtime.run.
C2_DriverOrdering ==
  /\ [](RunAfterCleanParse /\ ExitReported)
  /\ [][runCalls' # runCalls =>
          dpc = "parsing" /\ stack = <<>> /\ errors = <<>> /\ runCalls' = <<ret.items>>]_vars

C2_Witness ==
  dpc = "ran" /\ runCalls = <<slimAst>> /\ Len(slimAst) = 2

\* C3: on the EOF token check is false for every kind, match consumes
\* nothing and consume raises a ParseError that carries the EOF token and the
\* given message at the unchanged cursor; a ParseError caught at the EOF
\* token carries it, and a text whose last token closes no statement leaves a
\* recorded error.
C3_EofNeverAccepted ==
  /\ AtEof =>
       \A k \in TokenKinds :
         /\ check(i, k) = Ok(i, FALSE)
         /\ match(i, <<k>>) = Ok(i, FALSE)
         /\ consume(i, k, "Expected.") = Throw(i, error(tokens[i + 1], "Expected."))
  /\ (AtEof /\ At("declaration", "catch")) => exc[1].token = tokens[i + 1]
  /\ (Finished /\ Parsing /\ input.kinds # <<>>
        /\ input.kinds[Len(input.kinds)] \notin {"SEMICOLON", "RBRACE"}) =>
       errors # <<>>

C3_Witness ==
  /\ AtEof /\ At("declaration", "catch")
  /\ exc[1] = error(tokens[i + 1], "Expected '}' after block.")

\* the declaration calls between their push of the error and their return
InHandler == {k \in 1..Len(stack) : stack[k].fn = "declaration" /\ stack[k].pc = "synced"}

\* C4: no ParseError leaves parseProgram; each is appended once to
\* Parser.errors by the declaration that caught it, which then synchronizes
\* and returns null; a null adds no statement to the list of its caller; the
\* length of Parser.errors is the number of declaration calls that returned
\* null, plus one while a declaration is between its push and its return.
C4_ErrorPerFailedDeclaration ==
  /\ [](/\ dpc # "uncaught ParseError"
        /\ Len(errors) = nulls + Cardinality(InHandler)
        /\ (dpc = "parsing" /\ stack = <<>>) => Len(errors) = nulls
        /\ At("declaration", "synced") => ret.kind = "undefined")
  /\ [][/\ errors' # errors =>
             /\ At("declaration", "catch") /\ errors' = Append(errors, exc[1])
             /\ stack'[Len(stack')].fn = "synchronize"
        /\ nulls' # nulls =>
             /\ At("declaration", "synced") /\ nulls' = nulls + 1
             /\ ret'.kind = "null" /\ stack' = Rest
        /\ (stack # <<>> /\ Top.pc = "after" /\ ret.kind = "null") =>
             /\ Len(stack') = Len(stack)
             /\ Top.fn = "parseProgram" => stack'[Len(stack)].v.out = Top.v.out
             /\ Top.fn = "blockStmtsAlreadyOpened" =>
                  stack'[Len(stack)].v.stmts = Top.v.stmts]_vars

\* an error in a block was caught in the block, which was then completed,
\* and parsing went on to a second error
C4_Witness ==
  /\ dpc = "exited" /\ Len(errors) = 2 /\ nulls = 2
  /\ Len(slimAst) >= 2 /\ slimAst[1] = [kind |-> "Block", stmts |-> <<>>]

\* C5: exprOrAssignStmt takes the assignment branch exactly when its first
\* token is IDENT and the next one is an assignment operator; it then parses
\* the value two tokens on and its Assign node has that operator's kind and
\* the identifier's name; otherwise it parses an expression statement from
\* its first token.
C5_AssignLookahead ==
  lastStmt # <<>> =>
    LET s == lastStmt[1]
    IN  /\ s.assign <=> /\ KindAt(s.at) = "IDENT"
                        /\ s.at + 1 <= EofIndex
                        /\ KindAt(s.at + 1) \in AssignKinds
        /\ s.assign => /\ s.exprAt = s.at + 2
                       /\ s.node.kind \in {"Assign", "null"}
                       /\ s.node.kind = "Assign" =>
                            /\ s.node.op = KindAt(s.at + 1)
                            /\ s.node.name = tokens[s.at + 1].lexeme
        /\ ~s.assign => s.exprAt = s.at /\ s.node.kind \in {"ExprStmt", "null"}

C5_Witness ==
  /\ lastStmt # <<>>
  /\ lastStmt[1].assign
  /\ lastStmt[1].node.kind = "Assign"
  /\ lastStmt[1].node.op = "SLASH_ASSIGN"

\* the tier of a binary operator in the reference grammar, loosest first
Tier(kind) ==
  CASE kind = "OR" -> 1
    [] kind = "AND" -> 2
    [] kind \in {"EQUAL", "NOTEQ"} -> 3
    [] kind \in {"LT", "LTE", "GT", "GTE"} -> 4
    [] kind \in {"PLUS", "MINUS"} -> 5
    [] kind \in {"STAR", "SLASH"} -> 6

\* the tree the reference grammar gives tokens lo..hi (positions from 1) of
\* operand (op operand)*: the root is the last of the operators of the
\* loosest tier present, which is what left association and precedence mean
RECURSIVE RefTree(_, _)
RefTree(lo, hi) ==
  IF lo = hi
    THEN IF tokens[lo].kind = "NUMBER"
           THEN [kind |-> "Num", value |-> tokens[lo].literal[1]]
           ELSE [kind |-> "Ident", name |-> tokens[lo].lexeme]
    ELSE LET ops == {p \in (lo + 1)..(hi - 1) : (p - lo) % 2 = 1}
             loosest == CHOOSE t \in 1..6 :
                          /\ \E p \in ops : Tier(tokens[p].kind) = t
                          /\ \A p \in ops : Tier(tokens[p].kind) >= t
             root == CHOOSE p \in ops :
                       /\ Tier(tokens[p].kind) = loosest
                       /\ \A q \in ops : Tier(tokens[q].kind) = loosest => q <= p
         IN  [kind |-> "Binary", op |-> tokens[root].kind,
              lhs |-> RefTree(lo, root - 1), rhs |-> RefTree(root + 1, hi)]

Leaf(j) == [kind |-> "Ident", name |-> j]

NumLeaf(j) == [kind |-> "Num", value |-> j]

Binary(op, lhs, rhs) == [kind |-> "Binary", op |-> op, lhs |-> lhs, rhs |-> rhs]

\* C6: a well-formed chain of operands and binary operators parses without
\* error to the tree of the reference grammar: a higher tier binds tighter,
\* one tier folds left; a - b - c is (a - b) - c and a + b * c is a + (b * c).
C6_ExpressionTreeShape ==
  (Finished /\ Parsing /\ input.kinds \in ExprPrograms) =>
    /\ dpc = "ran"
    /\ slimAst = <<[kind |-> "ExprStmt", expr |-> RefTree(1, Len(tokens) - 2)]>>
    /\ input.kinds = ExprProgram(<<"MINUS", "MINUS">>) =>
         slimAst[1].expr = Binary("MINUS", Binary("MINUS", Leaf(1), NumLeaf(3)), Leaf(5))
    /\ input.kinds = ExprProgram(<<"PLUS", "STAR">>) =>
         slimAst[1].expr = Binary("PLUS", Leaf(1), Binary("STAR", NumLeaf(3), Leaf(5)))

C6_Witness ==
  /\ dpc = "ran"
  /\ input.kinds = ExprProgram(<<"MINUS", "MINUS">>)
  /\ slimAst[1].expr.lhs.kind = "Binary"

\* where panic-mode recovery stops: after a ';' or on a boundary keyword or EOF
Stop(j) ==
  \/ KindAt(j - 1) = "SEMICOLON"
  \/ KindAt(j) \in {"LET", "FUNC", "IF", "WHILE", "EOF"}

\* C7: synchronize is called on the token the error was raised at; from a
\* token that is not EOF it consumes that token and returns at the first
\* cursor after it where the last token consumed is ';' or the current token
\* is LET, FUNC, IF, WHILE or EOF; it never consumes EOF, and called on EOF
\* it leaves the cursor where it was.
C7_PanicModeSynchronize ==
  /\ At("declaration", "catch") => exc[1].token = tokens[i + 1]
  /\ (stack # <<>> /\ Top.fn = "synchronize") =>
       /\ Top.v.from <= i /\ i <= EofIndex
       /\ \A j \in (Top.v.from + 1)..(i - 1) : ~Stop(j)
       /\ (Top.pc = "loop" /\ KindAt(Top.v.from) # "EOF") => i > Top.v.from
  /\ lastSync # <<>> =>
       LET from == lastSync[1].from
           to == lastSync[1].to
       IN  IF KindAt(from) = "EOF" THEN to = from
           ELSE /\ from < to /\ to <= EofIndex
                /\ Stop(to)
                /\ \A j \in (from + 1)..(to - 1) : ~Stop(j)

C7_Witness ==
  /\ lastSync # <<>>
  /\ lastSync[1].to >= lastSync[1].from + 2
  /\ KindAt(lastSync[1].to) = "IF"

\* C8 as the grammar states it: no element of a block or of a function body
\* is a let or func declaration, each being parsed by statement.
C8_BlockOfStatements ==
  /\ At("blockStmtsAlreadyOpened", "after") => ret.kind \notin {"Let", "Fn"}
  /\ \A k \in 1..(Len(stack) - 1) :
       stack[k].fn = "blockStmtsAlreadyOpened" => stack[k + 1].fn = "statement"

\* C8, amended: each element of a block or of a function body is parsed by
\* declaration, as each top-level element is, so that it may be a let or
\* func declaration as well as a statement, and a fault in it is recorded
\* and recovered from inside the block.
C8_BlockOfDeclarations ==
  /\ \A k \in 1..(Len(stack) - 1) :
       stack[k].fn \in {"blockStmtsAlreadyOpened", "parseProgram"} =>
         stack[k].pc = "after" /\ stack[k + 1].fn = "declaration"
  /\ At("blockStmtsAlreadyOpened", "after") =>
       ret.kind \in {"Let", "Fn", "If", "While", "Block", "Assign", "ExprStmt", "null"}
  /\ \A k \in 1..Len(stack) :
       stack[k].fn = "statement" => k > 1 /\ stack[k - 1].fn \in {"declaration", "ifStmt", "whileStmt"}

C8_Witness ==
  /\ At("blockStmtsAlreadyOpened", "after")
  /\ ret.kind = "Let"
  /\ Top.v.stmts = <<>>

\* C9: parseProgram, once called, returns, and with the cursor on the EOF
\* token; every iteration of its loop and of the block loop ends with the
\* cursor further on than it began.
C9_Termination ==
  /\ (dpc = "parsing") ~> (dpc = "parsing" /\ stack = <<>> /\ KindAt(i) = "EOF")
  /\ []((stack # <<>> /\ Top.fn \in {"parseProgram", "blockStmtsAlreadyOpened"}
           /\ Top.pc = "after") => i > Top.v.it)
  /\ []((Finished /\ Parsing) => i = EofIndex)
  /\ [](~Crashed)

C9_Witness ==
  /\ dpc = "parsing" /\ stack = <<>>
  /\ i = EofIndex
  /\ nulls = 3

\* C10: the cursor stays between 0 and the index of the EOF token and never
\* decreases; previous() is not called at cursor 0 nor current() past the
\* EOF token, so neither fatal Error is raised.
C10_CursorInvariant ==
  /\ [](/\ Parsing => (0 <= i /\ i <= EofIndex)
        /\ dpc # "uncaught Error"
        /\ At("synchronize", "loop") => i >= 1)
  /\ [][i' >= i]_vars

\* synchronize has run after an error at the EOF token, and after one at
\* the very first token
C10_Witness ==
  /\ Finished /\ Len(errors) = 2
  /\ errors[1].token.lexeme = 1
  /\ errors[2].token.kind = "EOF"
  /\ lastSync # <<>> /\ lastSync[1].from = EofIndex

=============================================================================
